---- MODULE Spec2Model ----
(***************************************************************************)
(* The request dispatcher of llama_api/server/routers/v1.py: worker         *)
(* selection by model affinity, the per-worker semaphore, the handlers of   *)
(* /chat/completions, /completions, /embeddings and /models, and the        *)
(* producer jobs of llama_api/server/pools/llama.py that feed their queues. *)
(*                                                                          *)
(* The dispatcher is one cooperative event loop: every action below is the  *)
(* code a coroutine runs between two of its `await`s. The client may go     *)
(* away at any time; the dispatcher learns it only where it asks            *)
(* (request.is_disconnected(), check_disconnection, the SSE response), and  *)
(* every positive answer ends the request, so the answer is an input of     *)
(* those actions.                                                           *)
(***************************************************************************)
EXTENDS Integers, Sequences, FiniteSets, TLC

\* Requests that can be open at the same time (a slot is reused when the
\* request in it and its producer job are both over).
NumRequests == 2

\* Chunks a streaming producer may have on the queue ahead of the reader.
MaxQueue == 1

\* Values the CLI arguments max_workers and max_semaphores are drawn from.
WorkerCounts == {1, 2}
SemaphoreCounts == {1, 2}

\* Python's None, as a request key / affinity key and as a queue item.
None == "None"

\* `wix = None` of the handlers (worker indexes are 0-based integers).
NoWix == -1

\* Names exported by model_definitions.py.
ModelNames == {"orca_mini_3b", "orca_mini_7b"}

\* The four request shapes: body.stream false / true on the completion
\* endpoints, the embeddings endpoint, the model-listing endpoint.
Kinds == {"chat", "stream", "embedding", "models"}

\* get_models calls get_wix_with_semaphore(request) with the default key None;
\* the other endpoints pass body.model.
RequestKeys(k) == IF k = "models" THEN {None} ELSE ModelNames

VARIABLES
    max_workers,       \* int(MainCliArgs.max_workers.value or 1)
    max_semaphores,    \* int(MainCliArgs.max_semaphores.value or 1)
    processed_key,     \* wix_metas[w].processed_key
    semaphore,         \* wix_metas[w].semaphore.value
    pc,                \* where the handler of each request stands
    kind,              \* the request's shape
    request_key,       \* request_key of get_wix_with_semaphore
    wix_meta,          \* local wix_meta of get_wix_with_semaphore (its index)
    wix,               \* local wix of the handler
    job,               \* the producer job run_in_processpool_with_wix runs
    queue,             \* the job's result queue
    interrupt_signal   \* the job's interrupt event

\* One request of create_chat_completion_or_completion in detail, from the
\* moment its job was handed to the worker (specification SpecRequest).
VARIABLES
    body_stream,       \* body.stream
    handler,           \* where the handler / the event publisher stands
    fifo,              \* the items on `queue`, oldest first
    first_response,    \* local first_response of the handler
    task,              \* the task the local name `task` is bound to
    cancelled,         \* the tasks and futures .cancel() was called on
    event_set,         \* interrupt_signal.is_set()
    producer,          \* the job on the worker: "running" or "returned"
    put_chunks,        \* every chunk the job has put on the queue, in order
    send_chan,         \* the SSE send channel: "none", "open" or "closed"
    sent,              \* every event sent on the channel, in order
    ended_by           \* how the handling of the request ended

\* One run of LlamaCppCompletionGenerator._generate_text (specification
\* SpecGeneration).
VARIABLES
    max_tokens,        \* settings.max_tokens
    stops,             \* the stop strings the stop checker is configured with
    cache_attached,    \* bool(client.cache)
    cache_keys,        \* the keys client.cache was written under
    loop,              \* where the generator stands
    signal_set,        \* self.interrupt_signal.is_set()
    steps,             \* iterations of the for loop started so far
    token_id,          \* token_id of the current iteration
    generated_ids,     \* generated_ids
    generated_tokens,  \* completion_status.generated_tokens
    generated_text,    \* completion_status.generated_text
    byte_array,        \* byte_array
    text_buffer,       \* text_buffer
    yielded,           \* every text chunk yielded so far, in order
    loop_end,          \* why the generation ended
    consumer,          \* where generate_completion_chunks is with the iterator
    queued,            \* the chunks it put on the queue
    client_input_ids,  \* client._input_ids, the tokens the backend evaluated last
    cache_item,        \* cache_item.input_ids of the state found, <<>> if none
    state_loaded       \* client.load_state(cache_item) was called

\* The generators resident in one worker process (specification SpecPool).
VARIABLES
    completion_generators,  \* the deque completion_generators, oldest first
    embedding_generators,   \* the deque embedding_generators, oldest first
    pool,                   \* "idle", or which kind of generator is being loaded
    loading,                \* the generator from_pretrained is instantiating
    calls,                  \* every get_..._generator call so far and how it ended
    manager                 \* where completion_generator_manager stands

dispatcher_vars ==
    <<max_workers, max_semaphores, processed_key, semaphore, pc, kind,
      request_key, wix_meta, wix, job, queue, interrupt_signal>>

request_vars ==
    <<body_stream, handler, fifo, first_response, task, cancelled, event_set,
      producer, put_chunks, send_chan, sent, ended_by>>

generation_vars ==
    <<max_tokens, stops, cache_attached, cache_keys, loop, signal_set, steps,
      token_id, generated_ids, generated_tokens, generated_text, byte_array,
      text_buffer, yielded, loop_end, consumer, queued, client_input_ids,
      cache_item, state_loaded>>

\* The backend's state and the cache item of the warm-up.
backend_vars == <<client_input_ids, cache_item, state_loaded>>

pool_vars ==
    <<completion_generators, embedding_generators, pool, loading, calls,
      manager>>

\* The variables the dispatcher's actions never touch.
detail_vars == <<request_vars, generation_vars, pool_vars>>

\* The variables the actions of one request in detail never touch.
outside_request == <<dispatcher_vars, generation_vars, pool_vars>>

\* The variables the generation loop never touches.
outside_generation == <<dispatcher_vars, request_vars, pool_vars>>

\* The variables the calls for a generator never touch.
outside_pool == <<dispatcher_vars, request_vars, generation_vars>>

vars == <<dispatcher_vars, detail_vars>>

config == <<max_workers, max_semaphores>>

Slots == 1..NumRequests

\* range(max_workers)
Workers == 0..(max_workers - 1)

----------------------------------------------------------------------------
(* Worker selection *)

\* get_worker_rank with the test for None made first: a request without a
\* key no longer ranks a worker without a key at -2.
get_worker_rank_none_first(w, key) ==
    IF key = None \/ processed_key[w] = None THEN -1
    ELSE IF key = processed_key[w] THEN -2
    ELSE max_semaphores - semaphore[w]

\* get_worker_rank without the affinity branch of lines 82-84.
get_worker_rank_no_affinity(w, key) ==
    IF key = None \/ processed_key[w] = None THEN -1
    ELSE max_semaphores - semaphore[w]

get_worker_rank(w, key) ==
    IF key = processed_key[w] THEN -2
    ELSE IF key = None \/ processed_key[w] = None THEN -1
    ELSE max_semaphores - semaphore[w]

\* min(worker_ranks)
min_rank(ranks) ==
    CHOOSE m \in {ranks[i] : i \in DOMAIN ranks} :
        \A i \in DOMAIN ranks : m <= ranks[i]

\* candidates with `rank >= min_rank` for `rank == min_rank`.
candidates_at_least(ranks) ==
    {i \in DOMAIN ranks : ranks[i] >= min_rank(ranks)}

\* [i for i, rank in enumerate(worker_ranks) if rank == min_rank]
candidates(ranks) ==
    {i \in DOMAIN ranks : ranks[i] = min_rank(ranks)}

\* An item of a queue or an event of an SSE channel: a chunk (a dict, the
\* n-th one the job made), None, an exception, or the [DONE] event.
Chunk(n) == [type |-> "dict", n |-> n]
NoneItem == [type |-> "NoneType", n |-> 0]
ErrorItem == [type |-> "Exception", n |-> 0]
DoneEvent == [type |-> "[DONE]", n |-> 0]

\* The state after construction: no worker reserved, every permit free.
DispatcherInit ==
    /\ processed_key = [w \in Workers |-> None]
    /\ semaphore = [w \in Workers |-> max_semaphores]
    /\ pc = [r \in Slots |-> "idle"]
    /\ kind = [r \in Slots |-> "chat"]
    /\ request_key = [r \in Slots |-> None]
    /\ wix_meta = [r \in Slots |-> NoWix]
    /\ wix = [r \in Slots |-> NoWix]
    /\ job = [r \in Slots |-> "none"]
    /\ queue = [r \in Slots |-> <<>>]
    /\ interrupt_signal = [r \in Slots |-> FALSE]

\* Line 170 and the locals of lines 173-186 before any request is looked at
\* in detail.
RequestInit ==
    /\ handler = "wait"
    /\ fifo = <<>>
    /\ first_response = NoneItem
    /\ task = "producer"
    /\ cancelled = {}
    /\ event_set = FALSE
    /\ producer = "running"
    /\ put_chunks = <<>>
    /\ send_chan = "none"
    /\ sent = <<>>
    /\ ended_by = "none"

\* No generator: what `loading` holds while nothing is being loaded.
NoGenerator == [name |-> None, model_path |-> None]

\* pools/llama.py, lines 57-58: both deques are empty when the worker starts.
PoolInit ==
    /\ completion_generators = <<>>
    /\ embedding_generators = <<>>
    /\ pool = "idle"
    /\ loading = NoGenerator
    /\ calls = <<>>
    /\ manager = "none"

\* Lines 180-184: the locals of _generate_text before its first statement
\* runs, and a completion status as accept_settings registers it.
GenerationInit ==
    /\ cache_keys = {}
    /\ loop = "start"
    /\ signal_set = FALSE
    /\ steps = 0
    /\ token_id = None
    /\ generated_ids = <<>>
    /\ generated_tokens = 0
    /\ generated_text = <<>>
    /\ byte_array = <<>>
    /\ text_buffer = <<>>
    /\ yielded = <<>>
    /\ loop_end = "none"
    /\ consumer = "next"
    /\ queued = <<>>
    /\ cache_item = <<>>
    /\ state_loaded = FALSE

\* No generation is looked at: one token, no stop string, no cache.
GenerationOff ==
    /\ max_tokens = 1
    /\ stops = {}
    /\ cache_attached = FALSE
    /\ client_input_ids = <<>>
    /\ GenerationInit

Init ==
    /\ max_workers \in WorkerCounts
    /\ max_semaphores \in SemaphoreCounts
    /\ DispatcherInit
    /\ body_stream = FALSE
    /\ RequestInit
    /\ GenerationOff
    /\ PoolInit

----------------------------------------------------------------------------
(* get_wix_with_semaphore *)

\* SelectWorker reserving the worker (line 122) before the permit is acquired.
SelectWorkerReserving(r, k, key, w) ==
    /\ pc[r] = "idle"
    /\ \A q \in Slots : q < r => pc[q] # "idle"
    /\ key \in RequestKeys(k)
    /\ LET ranks == [i \in Workers |-> get_worker_rank(i, key)] IN
        /\ candidates(ranks) # {}
        /\ w \in candidates(ranks)
    /\ processed_key' = [processed_key EXCEPT ![w] = key]
    /\ wix_meta' = [wix_meta EXCEPT ![r] = w]
    /\ kind' = [kind EXCEPT ![r] = k]
    /\ request_key' = [request_key EXCEPT ![r] = key]
    /\ pc' = [pc EXCEPT ![r] = "acquiring"]
    /\ UNCHANGED <<detail_vars, config, semaphore, wix, job, queue, interrupt_signal>>

\* Lines 105-117: rank every worker, pick one of those tied at the lowest
\* rank, and start waiting for its semaphore. (A new request takes the first
\* free slot.)
SelectWorker(r, k, key, w) ==
    /\ pc[r] = "idle"
    /\ \A q \in Slots : q < r => pc[q] # "idle"
    /\ key \in RequestKeys(k)
    /\ LET ranks == [i \in Workers |-> get_worker_rank(i, key)] IN
        /\ candidates(ranks) # {}
        /\ w \in candidates(ranks)
    /\ wix_meta' = [wix_meta EXCEPT ![r] = w]
    /\ kind' = [kind EXCEPT ![r] = k]
    /\ request_key' = [request_key EXCEPT ![r] = key]
    /\ pc' = [pc EXCEPT ![r] = "acquiring"]
    /\ UNCHANGED <<detail_vars, config, processed_key, semaphore, wix,
                   job, queue, interrupt_signal>>

\* Line 117: `await wix_meta.semaphore.acquire()` returns once a permit is free.
Acquire(r) ==
    /\ pc[r] = "acquiring"
    /\ semaphore[wix_meta[r]] > 0
    /\ semaphore' = [semaphore EXCEPT ![wix_meta[r]] = @ - 1]
    /\ pc' = [pc EXCEPT ![r] = "acquired"]
    /\ UNCHANGED <<detail_vars, config, processed_key, kind, request_key, wix_meta, wix, job, queue, interrupt_signal>>

\* The handler the request runs in, after get_wix_with_semaphore returned.
AwaitOf(k) ==
    CASE k = "embedding" -> "embed_wait"
      [] k = "models" -> "models_wait"
      [] OTHER -> "first_wait"

\* Lines 119-123 when request.is_disconnected() answers False: the worker is
\* reserved, the index is returned and the handler hands the job to the
\* worker (lines 173-186, 272-282, 310-313) before it awaits again.
Reserve(r) ==
    /\ pc[r] = "acquired"
    /\ processed_key' = [processed_key EXCEPT ![wix_meta[r]] = request_key[r]]
    /\ wix' = [wix EXCEPT ![r] = wix_meta[r]]
    /\ job' = [job EXCEPT ![r] = "running"]
    /\ pc' = [pc EXCEPT ![r] = AwaitOf(kind[r])]
    /\ UNCHANGED <<detail_vars, config, semaphore, kind, request_key, wix_meta, queue, interrupt_signal>>

----------------------------------------------------------------------------
(* The end of a handler *)

\* Lines 240-242 and 292-294: `if wix is not None: semaphore.release()`.
release_semaphore(r) ==
    IF wix[r] # NoWix
    THEN [semaphore EXCEPT ![wix[r]] = @ + 1]
    ELSE semaphore

\* Lines 236-237 and 288-289: the interrupt event is set by the handler's
\* finally block unless the request streams (or no job was created yet).
finally_interrupt(r) ==
    IF kind[r] # "stream" /\ job[r] # "none" THEN TRUE ELSE interrupt_signal[r]

\* The handler of r is over. While its job is still on the worker the slot
\* keeps the job's worker and interrupt event; otherwise the slot is free.
EndHandler(r, intr) ==
    LET running == job[r] = "running" IN
    /\ pc' = [pc EXCEPT ![r] = IF running THEN "finished" ELSE "idle"]
    /\ kind' = [kind EXCEPT ![r] = IF running THEN @ ELSE "chat"]
    /\ wix' = [wix EXCEPT ![r] = IF running THEN @ ELSE NoWix]
    /\ job' = [job EXCEPT ![r] = IF running THEN @ ELSE "none"]
    /\ interrupt_signal' =
           [interrupt_signal EXCEPT ![r] = IF running THEN intr ELSE FALSE]
    /\ request_key' = [request_key EXCEPT ![r] = None]
    /\ wix_meta' = [wix_meta EXCEPT ![r] = NoWix]
    /\ queue' = [queue EXCEPT ![r] = <<>>]

\* AbortDisconnected with the reservation of line 122 made before the
\* liveness check of lines 119-120.
AbortDisconnectedReserving(r) ==
    /\ pc[r] = "acquired"
    /\ semaphore' = IF kind[r] = "models" THEN semaphore ELSE release_semaphore(r)
    /\ EndHandler(r, finally_interrupt(r))
    /\ processed_key' = [processed_key EXCEPT ![wix_meta[r]] = request_key[r]]
    /\ UNCHANGED <<detail_vars, config>>

\* Lines 119-120 when request.is_disconnected() answers True: the
\* cancellation is raised out of get_wix_with_semaphore, so the handler's
\* `wix` is still None in its finally block (get_models has no finally block
\* around the call at all).
AbortDisconnected(r) ==
    /\ pc[r] = "acquired"
    /\ semaphore' = IF kind[r] = "models" THEN semaphore ELSE release_semaphore(r)
    /\ EndHandler(r, finally_interrupt(r))
    /\ UNCHANGED <<detail_vars, config, processed_key>>

----------------------------------------------------------------------------
(* create_chat_completion_or_completion *)

\* validate_item_type(item, type=dict)
validate_item_type(item) == item = "dict"

\* Lines 187-234: queue.get won the race. A non-streaming request returns
\* the item (or raises it); a streaming request whose first item is valid
\* returns the EventSourceResponse. Either way the finally block of lines
\* 235-242 runs now.
FirstResponse(r) ==
    /\ pc[r] = "first_wait"
    /\ queue[r] # <<>>
    /\ semaphore' = release_semaphore(r)
    /\ IF kind[r] = "stream" /\ validate_item_type(Head(queue[r]))
       THEN /\ pc' = [pc EXCEPT ![r] = "streaming"]
            /\ queue' = [queue EXCEPT ![r] = Tail(@)]
            /\ UNCHANGED <<kind, request_key, wix_meta, wix, job, interrupt_signal>>
       ELSE EndHandler(r, finally_interrupt(r))
    /\ UNCHANGED <<detail_vars, config, processed_key>>

\* Lines 154-158 and 194-199: check_disconnection won the race and the
\* cancellation propagates through the finally block.
DisconnectDetected(r) ==
    /\ pc[r] = "first_wait"
    /\ semaphore' = release_semaphore(r)
    /\ EndHandler(r, finally_interrupt(r))
    /\ UNCHANGED <<detail_vars, config, processed_key>>

----------------------------------------------------------------------------
(* get_event_publisher, run by the EventSourceResponse after the handler *)
(* returned *)

\* Lines 146-151 and 219: the next queue item is a chunk and is sent.
StreamChunk(r) ==
    /\ pc[r] = "streaming"
    /\ queue[r] # <<>>
    /\ validate_item_type(Head(queue[r]))
    /\ queue' = [queue EXCEPT ![r] = Tail(@)]
    /\ UNCHANGED <<detail_vars, config, processed_key, semaphore, pc, kind, request_key,
                   wix_meta, wix, job,
                   interrupt_signal>>

\* ClosePublisher releasing the worker's permit a second time.
ClosePublisherReleasing(r) ==
    /\ semaphore' = [semaphore EXCEPT ![wix[r]] = @ + 1]
    /\ EndHandler(r, TRUE)
    /\ UNCHANGED <<detail_vars, config, processed_key>>

\* Lines 221-226: the publisher's finally block touches the interrupt event,
\* the task and the send channel, and no semaphore.
ClosePublisher(r) ==
    /\ semaphore' = semaphore
    /\ EndHandler(r, TRUE)
    /\ UNCHANGED <<detail_vars, config, processed_key>>

\* Lines 147-151 and 220: the queue yields None ([DONE] is sent) or an item
\* that validate_item_type raises on; the publisher ends.
StreamEnd(r) ==
    /\ pc[r] = "streaming"
    /\ queue[r] # <<>>
    /\ ~validate_item_type(Head(queue[r]))
    /\ ClosePublisher(r)

\* Line 147: queue.get(timeout=loop_timeout) raises on an empty queue.
StreamTimeout(r) ==
    /\ pc[r] = "streaming"
    /\ queue[r] = <<>>
    /\ ClosePublisher(r)

\* The SSE response cancels the publisher when the client is gone.
StreamDisconnect(r) ==
    /\ pc[r] = "streaming"
    /\ ClosePublisher(r)

----------------------------------------------------------------------------
(* create_embedding and get_models *)

\* Lines 283-294: the embedding (or the error raised from it) arrived.
EmbedResponse(r) ==
    /\ pc[r] = "embed_wait"
    /\ queue[r] # <<>>
    /\ semaphore' = release_semaphore(r)
    /\ EndHandler(r, finally_interrupt(r))
    /\ UNCHANGED <<detail_vars, config, processed_key>>

\* Lines 310-318: get_model_names returned from the worker.
ModelsResponse(r) ==
    /\ pc[r] = "models_wait"
    /\ semaphore' = [semaphore EXCEPT ![wix[r]] = @ + 1]
    /\ pc' = [pc EXCEPT ![r] = "idle"]
    /\ kind' = [kind EXCEPT ![r] = "chat"]
    /\ wix' = [wix EXCEPT ![r] = NoWix]
    /\ wix_meta' = [wix_meta EXCEPT ![r] = NoWix]
    /\ job' = [job EXCEPT ![r] = "none"]
    /\ request_key' = [request_key EXCEPT ![r] = None]
    /\ UNCHANGED <<detail_vars, config, processed_key, queue,
                   interrupt_signal>>

----------------------------------------------------------------------------
(* The producer jobs, on the worker *)

\* The job of r ends on the worker. If the handler is already over, the slot
\* is free again.
EndJob(r) ==
    /\ job' = [job EXCEPT ![r] = IF pc[r] = "finished" THEN "none" ELSE "finished"]
    /\ pc' = [pc EXCEPT ![r] = IF @ = "finished" THEN "idle" ELSE @]
    /\ kind' = [kind EXCEPT ![r] = IF pc[r] = "finished" THEN "chat" ELSE @]
    /\ wix' = [wix EXCEPT ![r] = IF pc[r] = "finished" THEN NoWix ELSE @]
    /\ interrupt_signal' =
           [interrupt_signal EXCEPT ![r] = IF pc[r] = "finished" THEN FALSE ELSE @]

\* What the job leaves on its queue; nobody reads the queue of a handler
\* that is over.
put(r, item) ==
    [queue EXCEPT ![r] = IF pc[r] = "finished" THEN <<>> ELSE Append(@, item)]

\* generate_completion (lines 258-273) and generate_embeddings (lines
\* 276-338): one item, the result or the error raised, and the job is over.
JobResult(r, item) ==
    /\ job[r] = "running"
    /\ kind[r] \in {"chat", "embedding"}
    /\ item \in {"dict", "error"}
    /\ queue' = put(r, item)
    /\ EndJob(r)
    /\ UNCHANGED <<detail_vars, config, processed_key, semaphore, request_key,
                   wix_meta>>

\* generate_completion_chunks, lines 251-255: a chunk is put unless the
\* interrupt event is set.
JobChunk(r) ==
    /\ job[r] = "running"
    /\ kind[r] = "stream"
    /\ pc[r] # "finished"
    /\ ~interrupt_signal[r]
    /\ Len(queue[r]) < MaxQueue
    /\ queue' = put(r, "dict")
    /\ UNCHANGED <<detail_vars, config, processed_key, semaphore, pc, kind, request_key,
                   wix_meta, wix, job,
                   interrupt_signal>>

\* generate_completion_chunks, lines 252-254: the event is set, the job
\* returns.
JobInterrupted(r) ==
    /\ job[r] = "running"
    /\ kind[r] = "stream"
    /\ interrupt_signal[r]
    /\ queue' = put(r, None)
    /\ EndJob(r)
    /\ UNCHANGED <<detail_vars, config, processed_key, semaphore, request_key,
                   wix_meta>>

\* generate_completion_chunks, lines 230-251: the chunk iterator is
\* exhausted (None ends the queue) or raises (the error is put).
JobEnd(r, item) ==
    /\ job[r] = "running"
    /\ kind[r] = "stream"
    /\ item \in {None, "error"}
    /\ queue' = put(r, item)
    /\ EndJob(r)
    /\ UNCHANGED <<detail_vars, config, processed_key, semaphore, request_key,
                   wix_meta>>

----------------------------------------------------------------------------
Next ==
    \/ \E r \in Slots, k \in Kinds, key \in ModelNames \cup {None}, w \in Workers :
           SelectWorker(r, k, key, w)
    \/ \E r \in Slots : Acquire(r)
    \/ \E r \in Slots : Reserve(r)
    \/ \E r \in Slots : AbortDisconnected(r)
    \/ \E r \in Slots : FirstResponse(r)
    \/ \E r \in Slots : DisconnectDetected(r)
    \/ \E r \in Slots : StreamChunk(r)
    \/ \E r \in Slots : StreamEnd(r)
    \/ \E r \in Slots : StreamTimeout(r)
    \/ \E r \in Slots : StreamDisconnect(r)
    \/ \E r \in Slots : EmbedResponse(r)
    \/ \E r \in Slots : ModelsResponse(r)
    \/ \E r \in Slots, item \in {"dict", "error"} : JobResult(r, item)
    \/ \E r \in Slots : JobChunk(r)
    \/ \E r \in Slots : JobInterrupted(r)
    \/ \E r \in Slots, item \in {None, "error"} : JobEnd(r, item)

Spec == Init /\ [][Next]_vars

----------------------------------------------------------------------------
(* One completion request in detail: the race for the first response, the   *)
(* event publisher and the producer job, with the identity of every chunk   *)
(* and of every task that is cancelled.                                     *)

\* Chunks one job may produce.
MaxChunks == 3

\* isinstance(item, dict), the test validate_item_type(item, type=dict) passes.
is_dict(item) == item.type = "dict"

\* Lines 236-237: the finally block sets the event unless the request streams.
finally_event(ev) == IF ~body_stream THEN TRUE ELSE ev

\* Lines 238-239: `task.cancel()` on whatever the name `task` is bound to.
finally_cancel(t, c) == IF ~body_stream THEN c \cup {t} ELSE c

\* Lines 194-196: `for task in pending: task.cancel()` cancels the loser of
\* the race and leaves the name `task` bound to it.
rebound(pending) == IF pending = {} THEN task ELSE CHOOSE t \in pending : TRUE

\* Lines 187-234: queue.get completed and its result is taken as the first
\* response; check_disconnection is pending unless it completed in the same
\* turn of the event loop.
QueueGetDone(pending) ==
    /\ handler = "wait"
    /\ fifo # <<>>
    /\ pending \in {{"check_disconnection"}, {}}
    /\ fifo' = Tail(fifo)
    /\ IF is_dict(Head(fifo)) /\ body_stream
       THEN /\ first_response' = Head(fifo)
            /\ send_chan' = "open"
            /\ handler' = "send_first"
            /\ task' = rebound(pending)
            /\ cancelled' = cancelled \cup pending
            /\ UNCHANGED <<event_set, ended_by>>
       ELSE /\ handler' = "closed"
            /\ ended_by' = IF is_dict(Head(fifo)) THEN "returned" ELSE "error"
            /\ task' = rebound(pending)
            /\ cancelled' = finally_cancel(rebound(pending), cancelled \cup pending)
            /\ event_set' = finally_event(event_set)
            /\ UNCHANGED <<first_response, send_chan>>
    /\ UNCHANGED <<outside_request, body_stream, producer, put_chunks, sent>>

\* Lines 154-158 and 187-203: check_disconnection raised the cancellation;
\* queue.get is pending unless it completed in the same turn (its item is
\* then dropped). The cancellation leaves through the finally block.
DisconnectionDone(pending) ==
    /\ handler = "wait"
    /\ pending \in {{"queue_get"}, {}}
    /\ pending = {} => fifo # <<>>
    /\ fifo' = IF pending = {} THEN Tail(fifo) ELSE fifo
    /\ handler' = "closed"
    /\ ended_by' = "disconnect"
    /\ task' = rebound(pending)
    /\ cancelled' = finally_cancel(rebound(pending), cancelled \cup pending)
    /\ event_set' = finally_event(event_set)
    /\ UNCHANGED <<outside_request, body_stream, first_response, producer,
                   put_chunks, send_chan, sent>>

\* get_streaming_iterator without lines 143-144: the first response is not
\* yielded.
SkipFirst ==
    /\ handler = "send_first"
    /\ handler' = "publishing"
    /\ UNCHANGED <<outside_request, body_stream, fifo, first_response, task,
                   cancelled, event_set, producer, put_chunks, send_chan,
                   sent, ended_by>>

\* Lines 143-144 and 219: get_streaming_iterator yields the first response
\* and the publisher sends it.
SendFirst ==
    /\ handler = "send_first"
    /\ sent' = Append(sent, first_response)
    /\ handler' = "publishing"
    /\ UNCHANGED <<outside_request, body_stream, fifo, first_response, task,
                   cancelled, event_set, producer, put_chunks, send_chan,
                   ended_by>>

\* Lines 146-151 and 219: the next item of the queue is a chunk; it is sent.
SendChunk ==
    /\ handler = "publishing"
    /\ fifo # <<>>
    /\ is_dict(Head(fifo))
    /\ sent' = Append(sent, Head(fifo))
    /\ fifo' = Tail(fifo)
    /\ UNCHANGED <<outside_request, body_stream, handler, first_response,
                   task, cancelled, event_set, producer, put_chunks,
                   send_chan, ended_by>>

\* Lines 221-226: the publisher's finally block.
publisher_finally(reason) ==
    /\ event_set' = TRUE
    /\ cancelled' = cancelled \cup {task}
    /\ send_chan' = "closed"
    /\ handler' = "closed"
    /\ ended_by' = reason
    /\ UNCHANGED <<outside_request, body_stream, first_response, task,
                   producer, put_chunks>>

\* PublisherError sending [DONE] before it leaves.
PublisherErrorDone ==
    /\ handler = "publishing"
    /\ fifo # <<>>
    /\ Head(fifo) = ErrorItem
    /\ fifo' = Tail(fifo)
    /\ sent' = Append(sent, DoneEvent)
    /\ publisher_finally("error")

\* Lines 147-150 and 220: the queue yields None, the iterator ends and
\* [DONE] is sent.
PublisherDone ==
    /\ handler = "publishing"
    /\ fifo # <<>>
    /\ Head(fifo) = NoneItem
    /\ fifo' = Tail(fifo)
    /\ sent' = Append(sent, DoneEvent)
    /\ publisher_finally("sentinel")

\* Lines 128-130 and 151: the queue yields the exception the job raised;
\* validate_item_type raises it out of the publisher.
PublisherError ==
    /\ handler = "publishing"
    /\ fifo # <<>>
    /\ Head(fifo) = ErrorItem
    /\ fifo' = Tail(fifo)
    /\ sent' = sent
    /\ publisher_finally("error")

\* Line 147: queue.get(timeout=loop_timeout) raises on a queue that stays
\* empty.
PublisherTimeout ==
    /\ handler = "publishing"
    /\ fifo = <<>>
    /\ UNCHANGED <<fifo, sent>>
    /\ publisher_finally("timeout")

\* The client is gone: the SSE response cancels the publisher at its current
\* await.
PublisherCancelled ==
    /\ handler \in {"send_first", "publishing"}
    /\ UNCHANGED <<fifo, sent>>
    /\ publisher_finally("disconnect")

\* generate_completion_chunks, lines 251-255: the next chunk of the iterator
\* is put on the queue unless the event is set.
ChunkPut ==
    /\ body_stream
    /\ producer = "running"
    /\ ~event_set
    /\ Len(put_chunks) < MaxChunks
    /\ fifo' = Append(fifo, Chunk(Len(put_chunks) + 1))
    /\ put_chunks' = Append(put_chunks, Chunk(Len(put_chunks) + 1))
    /\ UNCHANGED <<outside_request, body_stream, handler, first_response,
                   task, cancelled, event_set, producer, send_chan, sent,
                   ended_by>>

\* generate_completion_chunks, lines 252-254: the event is set and the job
\* returns; queue_manager ends the queue with None.
ChunksInterrupted ==
    /\ body_stream
    /\ producer = "running"
    /\ event_set
    /\ fifo' = Append(fifo, NoneItem)
    /\ producer' = "returned"
    /\ UNCHANGED <<outside_request, body_stream, handler, first_response,
                   task, cancelled, event_set, put_chunks, send_chan, sent,
                   ended_by>>

\* generate_completion_chunks, lines 230-251: the iterator is exhausted after
\* its last chunk (queue_manager ends the queue with None), or the
\* generation raises (queue_manager puts the exception).
ChunksEnd(item) ==
    /\ body_stream
    /\ producer = "running"
    /\ item \in {NoneItem, ErrorItem}
    /\ item = NoneItem => put_chunks # <<>>
    /\ fifo' = Append(fifo, item)
    /\ producer' = "returned"
    /\ UNCHANGED <<outside_request, body_stream, handler, first_response,
                   task, cancelled, event_set, put_chunks, send_chan, sent,
                   ended_by>>

\* generate_completion, lines 263-273: the completion is put, or the
\* exception the generation raised.
CompletionPut(item) ==
    /\ ~body_stream
    /\ producer = "running"
    /\ item \in {Chunk(1), ErrorItem}
    /\ fifo' = Append(fifo, item)
    /\ put_chunks' = IF is_dict(item) THEN Append(put_chunks, item) ELSE put_chunks
    /\ producer' = "returned"
    /\ UNCHANGED <<outside_request, body_stream, handler, first_response,
                   task, cancelled, event_set, send_chan, sent, ended_by>>

\* The request is looked at from line 187 on: the permit is held, the queue
\* and the event exist and the job is on the worker.
InitRequest ==
    /\ max_workers = 1
    /\ max_semaphores = 1
    /\ DispatcherInit
    /\ body_stream \in BOOLEAN
    /\ RequestInit
    /\ GenerationOff
    /\ PoolInit

NextRequest ==
    \/ \E pending \in SUBSET {"check_disconnection"} : QueueGetDone(pending)
    \/ \E pending \in SUBSET {"queue_get"} : DisconnectionDone(pending)
    \/ SendFirst
    \/ SendChunk
    \/ PublisherDone
    \/ PublisherError
    \/ PublisherTimeout
    \/ PublisherCancelled
    \/ ChunkPut
    \/ ChunksInterrupted
    \/ \E item \in {NoneItem, ErrorItem} : ChunksEnd(item)
    \/ \E item \in {Chunk(1), ErrorItem} : CompletionPut(item)

SpecRequest == InitRequest /\ [][NextRequest]_vars

----------------------------------------------------------------------------
(* LlamaCppCompletionGenerator._generate_text: one generation, token by     *)
(* token. A text is a sequence of characters, the bytes of a token a        *)
(* sequence of bytes; "E" is a character of two bytes, "E1" then "E2".      *)

\* Tokens one generation may be asked for (settings.max_tokens at most).
MaxTokens == 3

\* self.eos_token
eos_token_id == "EOS"

\* What client.generate can produce: tokens of one or two characters, the two
\* halves of a two-byte character, and the end-of-sequence token.
TokenIds == {"#", "##", "#a", "a", "E1", "E2", eos_token_id}

\* client.detokenize([token_id])
detokenize(t) ==
    CASE t = "#" -> <<"#">>
      [] t = "##" -> <<"#", "#">>
      [] t = "#a" -> <<"#", "a">>
      [] t = "a" -> <<"a">>
      [] t = "E1" -> <<"E1">>
      [] t = "E2" -> <<"E2">>
      [] OTHER -> <<>>

\* bytes.decode() raises UnicodeDecodeError unless every lead byte is followed
\* by its continuation byte and no continuation byte stands alone.
RECURSIVE WellFormed(_)
WellFormed(b) ==
    IF b = <<>> THEN TRUE
    ELSE IF Head(b) = "E1"
         THEN Len(b) >= 2 /\ b[2] = "E2" /\ WellFormed(Tail(Tail(b)))
    ELSE IF Head(b) = "E2" THEN FALSE
    ELSE WellFormed(Tail(b))

\* bytes.decode() of well-formed bytes.
RECURSIVE Decode(_)
Decode(b) ==
    IF b = <<>> THEN <<>>
    ELSE IF Head(b) = "E1" THEN <<"E">> \o Decode(Tail(Tail(b)))
    ELSE <<Head(b)>> \o Decode(Tail(b))

\* The stop settings a request may carry.
StopSets ==
    {{}, {<<"#", "#", "#">>}, {<<"#", "a">>, <<"a", "a">>}, {<<"E", "a">>}}

\* input_ids, the tokens of the prompt.
input_ids == <<"BOS", "p">>

\* What the backend may have evaluated last: nothing, the beginning of this
\* prompt, this prompt, another prompt.
EvaluatedIds == {<<>>, <<"BOS">>, <<"BOS", "p">>, <<"BOS", "q">>}

\* The keys of the states the cache may hold for this prompt: its
\* beginning, the prompt, the prompt with a completion.
CachedIds == {<<"BOS">>, <<"BOS", "p">>, <<"BOS", "p", "a">>}

\* client.longest_token_prefix(a, b): the length of the common prefix.
RECURSIVE longest_token_prefix(_, _)
longest_token_prefix(a, b) ==
    IF a = <<>> \/ b = <<>> \/ Head(a) # Head(b) THEN 0
    ELSE 1 + longest_token_prefix(Tail(a), Tail(b))

\* `stop in text`
Contains(text, s) ==
    \E i \in 0..(Len(text) - Len(s)) : SubSeq(text, i + 1, i + Len(s)) = s

\* text ends with a proper, non-empty prefix of s.
EndsWithPrefixOf(text, s) ==
    \E k \in 1..(Len(s) - 1) :
        /\ k <= Len(text)
        /\ SubSeq(text, Len(text) - k + 1, Len(text)) = SubSeq(s, 1, k)

\* self.stop_checker(text): True when the text contains a stop string, False
\* when it ends with the beginning of one, None otherwise.
stop_checker(text) ==
    IF \E s \in stops : Contains(text, s) THEN "True"
    ELSE IF \E s \in stops : EndsWithPrefixOf(text, s) THEN "False"
    ELSE None

\* self.check_interruption(completion_status)
check_interruption == signal_set

\* _load_cache, lines 262-279: a hit and a KeyError return, any other
\* exception of the lookup or of load_state leaves the function.
load_cache(outcome) == IF outcome \in {"hit", "miss"} THEN "returned" ELSE "raised"

\* loads_state with the state of the cache preferred on equal lengths.
loads_state_on_equal(item, ids) ==
    longest_token_prefix(item, ids) >= longest_token_prefix(client_input_ids, ids)

\* _load_cache, lines 264-270: cache_prefix_len > eval_prefix_len
loads_state(item, ids) ==
    longest_token_prefix(item, ids) > longest_token_prefix(client_input_ids, ids)

\* Lines 192-195: the warm-up and the first interruption check, run when the
\* generator is first advanced; on a hit the cache returned the state saved
\* under the key `item`, which load_state makes the state of the backend.
Warmup(outcome, item) ==
    /\ loop = "start"
    /\ outcome \in {"hit", "miss", "error"}
    /\ item \in CachedIds
    /\ ~cache_attached => outcome = "miss"
    /\ cache_item' = IF cache_attached /\ outcome = "hit" THEN item ELSE cache_item
    /\ IF cache_attached /\ outcome = "hit" /\ loads_state(item, input_ids)
       THEN client_input_ids' = item /\ state_loaded' = TRUE
       ELSE UNCHANGED <<client_input_ids, state_loaded>>
    /\ IF cache_attached /\ load_cache(outcome) = "raised"
       THEN loop' = "raised" /\ loop_end' = "error"
       ELSE IF check_interruption
            THEN loop' = "returned" /\ loop_end' = "interrupt"
            ELSE loop' = "loop" /\ loop_end' = loop_end
    /\ consumer' = IF loop' = "loop" THEN consumer ELSE "left"
    /\ UNCHANGED <<outside_generation, max_tokens, stops, cache_attached,
                   cache_keys, signal_set, steps, token_id, generated_ids,
                   generated_tokens, generated_text, byte_array, text_buffer,
                   yielded, queued>>

\* Lines 248-256: after the loop the state is saved under
\* input_ids + generated_ids when a cache is attached.
after_loop(ids) ==
    IF cache_attached THEN cache_keys \cup {input_ids \o ids} ELSE cache_keys

\* breaks without the comparison with the end-of-sequence token.
breaks_on_interrupt_only(t) == check_interruption

\* Lines 217-221: the loop is left on an interruption or on the
\* end-of-sequence token.
breaks(t) == check_interruption \/ t = eos_token_id

\* yields with no text ever withheld.
yields_whatever(status) == TRUE

\* yields with the text withheld only when it contains a stop string.
yields_unless_stop(status) == status # "True"

\* Line 239: `if stop_status is None`.
yields(status) == status = None

\* generated_text_plus without the text withheld at earlier steps.
generated_text_plus_decoded(buffer, decoded) == generated_text \o decoded

\* Lines 230 and 241: `generated_text += text_to_yield`, where text_to_yield
\* is text_buffer + the decoded bytes.
generated_text_plus(buffer, decoded) == generated_text \o buffer \o decoded

\* extend keeping only the bytes of the last token.
extend_forgetting(array, piece) == piece

\* Line 234: byte_array.extend(piece)
extend(array, piece) == array \o piece

\* Lines 196-246: one iteration of the loop, for the token client.generate
\* produced, up to the next iteration or the yield; a break runs on to the
\* end of the function.
Step(t) ==
    /\ loop = "loop"
    /\ consumer = "next"
    /\ steps < max_tokens
    /\ t \in TokenIds
    /\ steps' = steps + 1
    /\ token_id' = t
    /\ IF breaks(t)
       THEN /\ loop' = "returned"
            /\ loop_end' = IF check_interruption THEN "interrupt" ELSE "eos"
            /\ cache_keys' = after_loop(generated_ids)
            /\ UNCHANGED <<generated_ids, generated_tokens, generated_text,
                           byte_array, text_buffer, yielded>>
       ELSE LET bytes == byte_array \o detokenize(t) IN
            /\ generated_ids' = Append(generated_ids, t)
            /\ generated_tokens' = generated_tokens + 1
            /\ IF ~WellFormed(bytes)
               THEN /\ byte_array' = extend(byte_array, detokenize(t))
                    /\ UNCHANGED <<loop, loop_end, cache_keys, generated_text,
                                   text_buffer, yielded>>
               ELSE LET decoded == Decode(bytes)
                        text_to_yield == text_buffer \o decoded
                        stop_status == stop_checker(text_to_yield)
                    IN
                    /\ byte_array' = <<>>
                    /\ IF yields(stop_status)
                       THEN /\ text_buffer' = <<>>
                            /\ generated_text' =
                                   generated_text_plus(text_buffer, decoded)
                            /\ yielded' = Append(yielded, text_to_yield)
                            /\ UNCHANGED <<loop, loop_end, cache_keys>>
                       ELSE IF stop_status = "True"
                       THEN /\ loop' = "returned"
                            /\ loop_end' = "stop"
                            /\ cache_keys' = after_loop(Append(generated_ids, t))
                            /\ UNCHANGED <<generated_text, text_buffer, yielded>>
                       ELSE /\ text_buffer' = text_to_yield
                            /\ UNCHANGED <<loop, loop_end, cache_keys,
                                           generated_text, yielded>>
    /\ consumer' = IF loop' # "loop" THEN "left"
                   ELSE IF yielded' # yielded THEN "chunk" ELSE "next"
    /\ UNCHANGED <<outside_generation, backend_vars, max_tokens, stops,
                   cache_attached,
                   signal_set, queued>>

\* Lines 196-197 and 248-256: range(settings.max_tokens) is exhausted; zip
\* asks for no further token and the function runs to its end.
Exhausted ==
    /\ loop = "loop"
    /\ consumer = "next"
    /\ steps = max_tokens
    /\ loop' = "returned"
    /\ loop_end' = "max_tokens"
    /\ cache_keys' = after_loop(generated_ids)
    /\ consumer' = "left"
    /\ UNCHANGED <<outside_generation, backend_vars, max_tokens, stops,
                   cache_attached,
                   signal_set, steps, token_id, generated_ids,
                   generated_tokens, generated_text, byte_array, text_buffer,
                   yielded, queued>>

\* put_or_return without the look at the event: every chunk is put.
put_always ==
    /\ consumer = "chunk"
    /\ queued' = Append(queued, yielded[Len(yielded)])
    /\ consumer' = "next"
    /\ UNCHANGED <<outside_generation, backend_vars, max_tokens, stops,
                   cache_attached,
                   cache_keys, loop, signal_set, steps, token_id,
                   generated_ids, generated_tokens, generated_text, byte_array,
                   text_buffer, yielded, loop_end>>

\* pools/llama.py, lines 251-255: generate_completion_chunks, with the chunk
\* the iterator gave it, returns when the event is set and puts the chunk on
\* the queue otherwise; the generator stays suspended at its yield meanwhile,
\* and for good after the return.
put_or_return ==
    /\ consumer = "chunk"
    /\ IF signal_set
       THEN consumer' = "left" /\ queued' = queued
       ELSE /\ queued' = Append(queued, yielded[Len(yielded)])
            /\ consumer' = "next"
    /\ UNCHANGED <<outside_generation, backend_vars, max_tokens, stops,
                   cache_attached,
                   cache_keys, loop, signal_set, steps, token_id,
                   generated_ids, generated_tokens, generated_text, byte_array,
                   text_buffer, yielded, loop_end>>

\* The dispatcher sets the event of the request (v1.py, lines 224 and 237)
\* while the generation runs.
SetSignal ==
    /\ loop \in {"start", "loop"}
    /\ ~signal_set
    /\ signal_set' = TRUE
    /\ UNCHANGED <<outside_generation, backend_vars, max_tokens, stops,
                   cache_attached,
                   cache_keys, loop, steps, token_id, generated_ids,
                   generated_tokens, generated_text, byte_array, text_buffer,
                   yielded, loop_end, consumer, queued>>

\* A generation for any budget, stop setting and cache setting.
InitGeneration ==
    /\ max_workers = 1
    /\ max_semaphores = 1
    /\ DispatcherInit
    /\ body_stream = FALSE
    /\ RequestInit
    /\ max_tokens \in 1..MaxTokens
    /\ stops \in StopSets
    /\ cache_attached \in BOOLEAN
    /\ client_input_ids \in EvaluatedIds
    /\ GenerationInit
    /\ PoolInit

NextGeneration ==
    \/ \E outcome \in {"hit", "miss", "error"}, item \in CachedIds :
           Warmup(outcome, item)
    \/ \E t \in TokenIds : Step(t)
    \/ Exhausted
    \/ put_or_return
    \/ SetSignal

SpecGeneration == InitGeneration /\ [][NextGeneration]_vars

----------------------------------------------------------------------------
(* The generators of one worker process: get_completion_generator and       *)
(* get_embedding_generator of pools/llama.py. A worker runs one job at a    *)
(* time, so the calls follow each other; a call that loads a model is two   *)
(* steps, the evictions and the instantiation.                              *)

\* Calls for a generator one worker is followed through.
MaxCalls == 3

\* deque(maxlen=1)
maxlen == 1

\* model_definitions.py, lines 29-32.
openai_replacement_models ==
    ("gpt-3.5-turbo" :> "orca_mini_3b") @@ ("gpt-4" :> "orca_mini_7b")

\* model_definitions.py, lines 8-23: the model_path of each definition.
model_path(name) ==
    CASE name = "orca_mini_3b" -> "orca-mini-3b.ggmlv3.q4_1.bin"
      [] name = "orca_mini_7b" -> "orca_mini_7b"

\* The body.model of completion requests that reach a worker.
CompletionModels == ModelNames \cup DOMAIN openai_replacement_models

\* The body.model of embedding requests served by get_embedding_generator.
EmbeddingModels ==
    {"intfloat/e5-large-v2", "Intfloat/E5-Large-V2", "hkunlp/instructor-xl"}

\* str.lower()
lower(name) ==
    IF name = "Intfloat/E5-Large-V2" THEN "intfloat/e5-large-v2" ELSE name

\* free_memory_of_first_item_from_container(container): the oldest item is
\* taken out of the container and freed.
free_memory_of_first_item_from_container(container) == Tail(container)

\* deque.append on a deque with a maximum length.
deque_append(d, x) ==
    LET a == Append(d, x) IN
    IF Len(a) > maxlen THEN SubSeq(a, Len(a) - maxlen + 1, Len(a)) ELSE a

\* A call for the record of calls: the body.model it came with, the model
\* it was resolved to, how it ended ("loading" while it has not) and how the
\* generation with the generator ended, if there was one.
Call(requested, name, result) ==
    [requested |-> requested, model |-> name, result |-> result,
     generation |-> "none"]

\* get_completion_generator without lines 143-146: the embedding generator
\* stays resident while a completion generator is loaded.
GetCompletionGeneratorKeepingEmbeddings(name) ==
    /\ pool = "idle"
    /\ manager = "none"
    /\ Len(calls) < MaxCalls
    /\ name \in CompletionModels
    /\ LET model == IF name \in DOMAIN openai_replacement_models
                    THEN openai_replacement_models[name] ELSE name
       IN
       IF \E i \in DOMAIN completion_generators :
              completion_generators[i].model_path = model_path(model)
       THEN /\ calls' = Append(calls, Call(name, model, "reused"))
            /\ manager' = "got"
            /\ UNCHANGED <<completion_generators, embedding_generators, pool,
                           loading>>
       ELSE /\ embedding_generators' = embedding_generators
            /\ completion_generators' =
                   IF maxlen = Len(completion_generators)
                   THEN free_memory_of_first_item_from_container(completion_generators)
                   ELSE completion_generators
            /\ pool' = "completion"
            /\ loading' = [name |-> model, model_path |-> model_path(model),
                            locked |-> FALSE, interrupt_signal |-> None]
            /\ calls' = Append(calls, Call(name, model, "loading"))
            /\ manager' = manager
    /\ UNCHANGED outside_pool

\* get_completion_generator without the look-up of lines 135-140: every
\* call instantiates a generator.
GetCompletionGeneratorAlwaysLoading(name) ==
    /\ pool = "idle"
    /\ manager = "none"
    /\ Len(calls) < MaxCalls
    /\ name \in CompletionModels
    /\ LET model == IF name \in DOMAIN openai_replacement_models
                    THEN openai_replacement_models[name] ELSE name
       IN
       IF FALSE
       THEN /\ calls' = Append(calls, Call(name, model, "reused"))
            /\ manager' = "got"
            /\ UNCHANGED <<completion_generators, embedding_generators, pool,
                           loading>>
       ELSE /\ embedding_generators' =
                   IF embedding_generators # <<>>
                   THEN free_memory_of_first_item_from_container(embedding_generators)
                   ELSE embedding_generators
            /\ completion_generators' =
                   IF maxlen = Len(completion_generators)
                   THEN free_memory_of_first_item_from_container(completion_generators)
                   ELSE completion_generators
            /\ pool' = "completion"
            /\ loading' = [name |-> model, model_path |-> model_path(model),
                            locked |-> FALSE, interrupt_signal |-> None]
            /\ calls' = Append(calls, Call(name, model, "loading"))
            /\ manager' = manager
    /\ UNCHANGED outside_pool

\* get_completion_generator looking up the resident generator by the
\* body.model of the request instead of the model path of its definition.
GetCompletionGeneratorByRequestedName(name) ==
    /\ pool = "idle"
    /\ manager = "none"
    /\ Len(calls) < MaxCalls
    /\ name \in CompletionModels
    /\ LET model == IF name \in DOMAIN openai_replacement_models
                    THEN openai_replacement_models[name] ELSE name
       IN
       IF \E i \in DOMAIN completion_generators :
              completion_generators[i].name = name
       THEN /\ calls' = Append(calls, Call(name, model, "reused"))
            /\ manager' = "got"
            /\ UNCHANGED <<completion_generators, embedding_generators, pool,
                           loading>>
       ELSE /\ embedding_generators' =
                   IF embedding_generators # <<>>
                   THEN free_memory_of_first_item_from_container(embedding_generators)
                   ELSE embedding_generators
            /\ completion_generators' =
                   IF maxlen = Len(completion_generators)
                   THEN free_memory_of_first_item_from_container(completion_generators)
                   ELSE completion_generators
            /\ pool' = "completion"
            /\ loading' = [name |-> model, model_path |-> model_path(model),
                            locked |-> FALSE, interrupt_signal |-> None]
            /\ calls' = Append(calls, Call(name, model, "loading"))
            /\ manager' = manager
    /\ UNCHANGED outside_pool

\* Lines 120-152: the alias is resolved; a resident generator of the same
\* model path is returned; otherwise the embedding generator and the
\* completion generator that are resident are freed, and the new generator
\* is about to be instantiated.
GetCompletionGenerator(name) ==
    /\ pool = "idle"
    /\ manager = "none"
    /\ Len(calls) < MaxCalls
    /\ name \in CompletionModels
    /\ LET model == IF name \in DOMAIN openai_replacement_models
                    THEN openai_replacement_models[name] ELSE name
       IN
       IF \E i \in DOMAIN completion_generators :
              completion_generators[i].model_path = model_path(model)
       THEN /\ calls' = Append(calls, Call(name, model, "reused"))
            /\ manager' = "got"
            /\ UNCHANGED <<completion_generators, embedding_generators, pool,
                           loading>>
       ELSE /\ embedding_generators' =
                   IF embedding_generators # <<>>
                   THEN free_memory_of_first_item_from_container(embedding_generators)
                   ELSE embedding_generators
            /\ completion_generators' =
                   IF maxlen = Len(completion_generators)
                   THEN free_memory_of_first_item_from_container(completion_generators)
                   ELSE completion_generators
            /\ pool' = "completion"
            /\ loading' = [name |-> model, model_path |-> model_path(model),
                            locked |-> FALSE, interrupt_signal |-> None]
            /\ calls' = Append(calls, Call(name, model, "loading"))
            /\ manager' = manager
    /\ UNCHANGED outside_pool

\* Lines 154-174: from_pretrained returns the generator, which is appended
\* to the deque, or raises, and the error leaves the call.
CompletionFromPretrained(ok) ==
    /\ pool = "completion"
    /\ ok \in BOOLEAN
    /\ completion_generators' =
           IF ok THEN deque_append(completion_generators, loading)
           ELSE completion_generators
    /\ calls' = [calls EXCEPT ![Len(calls)].result = IF ok THEN "loaded" ELSE "failed"]
    /\ pool' = "idle"
    /\ loading' = NoGenerator
    /\ manager' = IF ok THEN "got" ELSE manager
    /\ UNCHANGED <<outside_pool, embedding_generators>>

\* The place in the deque of the generator the last call returned.
returned_generator ==
    CHOOSE i \in DOMAIN completion_generators :
        completion_generators[i].model_path = model_path(calls[Len(calls)].model)

\* Lines 81-83: completion_generator_manager hands the event to the
\* generator and acquires its lock; when the lock was left held, acquire_lock
\* either blocks for good or, for a reentrant lock, returns.
EnterManager(blocks) ==
    /\ manager = "got"
    /\ blocks \in BOOLEAN
    /\ LET i == returned_generator IN
       IF completion_generators[i].locked /\ blocks
       THEN /\ manager' = "blocked"
            /\ completion_generators' =
                   [completion_generators EXCEPT ![i].interrupt_signal = "event"]
       ELSE /\ manager' = "managed"
            /\ completion_generators' =
                   [completion_generators EXCEPT ![i].interrupt_signal = "event",
                                                 ![i].locked = TRUE]
    /\ UNCHANGED <<outside_pool, embedding_generators, pool, loading, calls>>

\* Lines 83-86 and the block of generate_completion_chunks or
\* generate_completion: the generation completes or returns early on the
\* interruption, and the generator resumes after its yield, releases the
\* lock and forgets the event; or the generation raises, the exception is
\* thrown into the generator at its yield, and nothing after the yield runs.
ExitManager(outcome) ==
    /\ manager = "managed"
    /\ outcome \in {"done", "interrupted", "error"}
    /\ LET i == returned_generator IN
       completion_generators' =
           IF outcome = "error" THEN completion_generators
           ELSE [completion_generators EXCEPT ![i].interrupt_signal = None,
                                              ![i].locked = FALSE]
    /\ calls' = [calls EXCEPT ![Len(calls)].generation = outcome]
    /\ manager' = "none"
    /\ UNCHANGED <<outside_pool, embedding_generators, pool, loading>>

\* Lines 325-336: generate_embeddings takes the completion generator of a
\* llama.cpp model without the manager and asks its client for the
\* embedding.
CreateEmbedding ==
    /\ manager = "got"
    /\ manager' = "none"
    /\ UNCHANGED <<outside_pool, completion_generators, embedding_generators,
                   pool, loading, calls>>

\* Lines 184-201: the name is lowered; a resident generator of that name is
\* returned; otherwise the embedding generator and the completion generator
\* that are resident are freed, and the new generator is about to be
\* instantiated.
GetEmbeddingGenerator(name) ==
    /\ pool = "idle"
    /\ manager = "none"
    /\ Len(calls) < MaxCalls
    /\ name \in EmbeddingModels
    /\ IF \E i \in DOMAIN embedding_generators :
              embedding_generators[i].name = lower(name)
       THEN /\ calls' = Append(calls, Call(name, lower(name), "reused"))
            /\ UNCHANGED <<completion_generators, embedding_generators, pool,
                           loading, manager>>
       ELSE /\ embedding_generators' =
                   IF maxlen = Len(embedding_generators)
                   THEN free_memory_of_first_item_from_container(embedding_generators)
                   ELSE embedding_generators
            /\ completion_generators' =
                   IF completion_generators # <<>>
                   THEN free_memory_of_first_item_from_container(completion_generators)
                   ELSE completion_generators
            /\ pool' = "embedding"
            /\ loading' = [name |-> lower(name), model_path |-> lower(name)]
            /\ calls' = Append(calls, Call(name, lower(name), "loading"))
            /\ manager' = manager
    /\ UNCHANGED outside_pool

\* Lines 203-222: from_pretrained returns the embedding generator, which is
\* appended to the deque, or raises.
EmbeddingFromPretrained(ok) ==
    /\ pool = "embedding"
    /\ ok \in BOOLEAN
    /\ embedding_generators' =
           IF ok THEN deque_append(embedding_generators, loading)
           ELSE embedding_generators
    /\ calls' = [calls EXCEPT ![Len(calls)].result = IF ok THEN "loaded" ELSE "failed"]
    /\ pool' = "idle"
    /\ loading' = NoGenerator
    /\ UNCHANGED <<outside_pool, completion_generators, manager>>

\* One worker process from its start.
InitPool ==
    /\ max_workers = 1
    /\ max_semaphores = 1
    /\ DispatcherInit
    /\ body_stream = FALSE
    /\ RequestInit
    /\ GenerationOff
    /\ PoolInit

NextPool ==
    \/ \E name \in CompletionModels : GetCompletionGenerator(name)
    \/ \E ok \in BOOLEAN : CompletionFromPretrained(ok)
    \/ \E name \in EmbeddingModels : GetEmbeddingGenerator(name)
    \/ \E ok \in BOOLEAN : EmbeddingFromPretrained(ok)
    \/ \E blocks \in BOOLEAN : EnterManager(blocks)
    \/ \E outcome \in {"done", "interrupted", "error"} : ExitManager(outcome)
    \/ CreateEmbedding

SpecPool == InitPool /\ [][NextPool]_vars

----------------------------------------------------------------------------
(* Properties *)

Keys == ModelNames \cup {None}

\* r holds a permit of the worker it chose.
HoldsPermit(r) == pc[r] \in {"acquired", "first_wait", "embed_wait", "models_wait"}

\* r acquired a permit and its handling, streaming included, is not over.
InFlight(r) == HoldsPermit(r) \/ pc[r] = "streaming"

InFlightOn(w) == {r \in Slots : InFlight(r) /\ wix_meta[r] = w}

\* The step in which r leaves get_wix_with_semaphore by the cancellation of
\* line 120.
AbortStep(r) == pc[r] = "acquired" /\ pc'[r] = "idle"

\* The step in which r ranks the workers and chooses one.
SelectStep(r) == pc[r] = "idle" /\ pc'[r] = "acquiring"

\* C1: when the client is found disconnected right after the acquire, the
\* abort gives the permit back (the worker's availability is again what it
\* was before the acquire) and leaves the worker's affinity key unchanged.
C1_AbortReleasesPermit ==
    [][\A r \in Slots :
          AbortStep(r) =>
              /\ semaphore'[wix_meta[r]] = semaphore[wix_meta[r]] + 1
              /\ processed_key' = processed_key]_vars

\* C2: for every worker, the number of requests in flight on it (a permit
\* acquired, handling or streaming not over) equals S minus the semaphore's
\* availability.
C2_InFlightEqualsPermitsInUse ==
    \A w \in Workers :
        Cardinality(InFlightOn(w)) = max_semaphores - semaphore[w]

\* C3: every acquired permit is released on every exit path, so once every
\* request is over each worker's semaphore is back at S.
C3_AllPermitsBackWhenQuiet ==
    (\A r \in Slots : pc[r] = "idle") =>
        \A w \in Workers : semaphore[w] = max_semaphores

\* The requests that hold a permit of worker w.
PermitHolders(w) == {r \in Slots : HoldsPermit(r) /\ wix_meta[r] = w}

\* C4: each worker's semaphore value stays within 0..S; more precisely the
\* value plus the permits held by requests never exceeds S, so no handler
\* releases a permit it does not hold or releases twice.
C4_SemaphoreWithinBounds ==
    \A w \in Workers :
        /\ 0 <= semaphore[w] /\ semaphore[w] <= max_semaphores
        /\ semaphore[w] + Cardinality(PermitHolders(w)) <= max_semaphores

\* C4 witness: a worker whose permits were all given back after a request
\* reserved it, while some worker has no permit left.
C4_Witness ==
    /\ \E w \in Workers :
           processed_key[w] # None /\ semaphore[w] = max_semaphores
    /\ \E w \in Workers : semaphore[w] = 0 /\ \E r \in Slots : HoldsPermit(r)

\* The scenario of C5: W = 2, S = 1, a chat completion for model m has
\* reserved worker b and still holds its permit, the other worker o is idle
\* and has never been reserved, and a second request r for m is choosing.
C5_Scenario(r, m, b, o) ==
    /\ max_workers = 2 /\ max_semaphores = 1
    /\ b # o
    /\ \E q \in Slots \ {r} :
           /\ pc[q] = "first_wait" /\ kind[q] \in {"chat", "stream"}
           /\ request_key[q] = m /\ wix[q] = b
    /\ processed_key[o] = None /\ semaphore[o] = max_semaphores
    /\ SelectStep(r) /\ request_key'[r] = m /\ kind'[r] \in {"chat", "stream"}

\* C5 as claimed: in that scenario the second request ranks the idle worker
\* at -1 and the busy worker at 0, and is dispatched to the idle worker.
C5_SecondPicksIdleWorker ==
    [][\A r \in Slots, m \in ModelNames, b \in Workers, o \in Workers :
          C5_Scenario(r, m, b, o) =>
              /\ get_worker_rank(o, m) = -1
              /\ get_worker_rank(b, m) = 0
              /\ wix_meta'[r] = o]_vars

\* C5 amended: in that scenario the busy worker ranks -2 (its affinity key is
\* the requested model) and the idle worker -1, and the second request is
\* dispatched to the busy worker, where it waits for the permit.
C5_SecondPicksBusyWorker ==
    [][\A r \in Slots, m \in ModelNames, b \in Workers, o \in Workers :
          C5_Scenario(r, m, b, o) =>
              /\ get_worker_rank(o, m) = -1
              /\ get_worker_rank(b, m) = -2
              /\ wix_meta'[r] = b]_vars

\* C5 witness: the second request waits on the busy worker while the idle
\* worker has still never been reserved.
C5_Witness ==
    /\ max_workers = 2 /\ max_semaphores = 1
    /\ \E q \in Slots, r \in Slots, m \in ModelNames :
           /\ q # r
           /\ pc[q] = "first_wait" /\ request_key[q] = m
           /\ pc[r] = "acquiring" /\ request_key[r] = m
           /\ wix_meta[r] = wix[q]
           /\ \E o \in Workers \ {wix[q]} :
                  processed_key[o] = None /\ semaphore[o] = max_semaphores

\* C6: get_worker_rank is -2 when the worker's affinity key equals the
\* request key, else -1 when either key is null, else S minus the worker's
\* availability; it is always -2, -1 or within 0..S.
C6_RankCases ==
    \A w \in Workers, K \in Keys :
        /\ processed_key[w] = K => get_worker_rank(w, K) = -2
        /\ processed_key[w] # K /\ (K = None \/ processed_key[w] = None)
               => get_worker_rank(w, K) = -1
        /\ processed_key[w] # K /\ K # None /\ processed_key[w] # None
               => get_worker_rank(w, K) = max_semaphores - semaphore[w]
        /\ get_worker_rank(w, K) \in {-2, -1} \cup 0..max_semaphores

\* C6 witness: a worker reserved for a model with a permit in use and
\* another one never reserved, so that all three cases occur.
C6_Witness ==
    /\ \E w \in Workers :
           processed_key[w] \in ModelNames /\ semaphore[w] < max_semaphores
    /\ \E w \in Workers : processed_key[w] = None

\* C7: the worker a request is made to wait on has the lowest rank of all
\* workers at the time of the choice, and every worker tied at the lowest
\* rank can be the one chosen (so the candidate set is never empty).
C7_ChoosesLowestRank ==
    /\ [][\A r \in Slots :
             SelectStep(r) =>
                 \A i \in Workers :
                     get_worker_rank(wix_meta'[r], request_key'[r])
                         <= get_worker_rank(i, request_key'[r])]_vars
    /\ [](\A r \in Slots, k \in Kinds, key \in Keys, w \in Workers :
             /\ pc[r] = "idle"
             /\ \A q \in Slots : q < r => pc[q] # "idle"
             /\ key \in RequestKeys(k)
             /\ \A i \in Workers :
                    get_worker_rank(w, key) <= get_worker_rank(i, key)
             => ENABLED SelectWorker(r, k, key, w))

\* C7 witness: a request waits on the second of two workers that were tied.
C7_Witness ==
    /\ max_workers = 2
    /\ \A w \in Workers : processed_key[w] = None
    /\ \E r \in Slots : pc[r] = "acquiring" /\ wix_meta[r] = 1

\* C8 as claimed: on every worker with a permit held by a request in flight,
\* the affinity key is null or equals the model of every request in flight
\* on that worker (model-listing calls name no model and are left out).
C8_KeyMatchesAllInFlight ==
    \A w \in Workers :
        (\E r \in InFlightOn(w) : HoldsPermit(r)) =>
            \/ processed_key[w] = None
            \/ \A r \in InFlightOn(w) :
                   request_key[r] \in ModelNames =>
                       request_key[r] = processed_key[w]

\* C8 amended: with S = 1, the affinity key of a worker equals the key of
\* the request that has reserved the worker and still holds its permit.
C8_KeyMatchesReserver ==
    max_semaphores = 1 =>
        \A r \in Slots :
            pc[r] \in {"first_wait", "embed_wait", "models_wait"} =>
                processed_key[wix[r]] = request_key[r]

\* C8 witness: with S = 1 a request for one model holds the worker while a
\* request for another model waits for the same worker.
C8_Witness ==
    /\ max_semaphores = 1
    /\ \E r \in Slots, q \in Slots :
           /\ pc[r] = "first_wait" /\ processed_key[wix[r]] = request_key[r]
           /\ pc[q] = "acquiring" /\ wix_meta[q] = wix[r]
           /\ request_key[q] \in ModelNames \ {request_key[r]}

\* C9: a release leaves the affinity key unchanged, and a worker whose key
\* is a model keeps ranking -2 for that model (keeps the key) until a
\* request for a different model is dispatched to it, whatever other calls
\* happen in between.
C9_KeyKeptUntilOtherModel ==
    [][\A w \in Workers :
          /\ semaphore'[w] > semaphore[w] => processed_key'[w] = processed_key[w]
          /\ processed_key[w] \in ModelNames /\ processed_key'[w] # processed_key[w]
                 => processed_key'[w] \in ModelNames]_vars

\* The jobs handed to worker w that have not finished on it.
JobsOn(w) == {r \in Slots : job[r] = "running" /\ wix[r] = w}

\* C10: the number of jobs handed to a worker and not yet finished on it
\* never exceeds S.
C10_JobsWithinPermits ==
    \A w \in Workers : Cardinality(JobsOn(w)) <= max_semaphores

\* C11: once a chat/completion job was handed to a worker, a client
\* disconnect makes the dispatcher set the request's interrupt event, for
\* streaming and non-streaming requests alike. Nothing sets the event after
\* the handler (and the publisher, if one was started) is over, so whenever
\* the handling is over while the job is still on the worker, the event is
\* set.
C11_InterruptSetOnDisconnect ==
    \A r \in Slots :
        pc[r] = "finished" /\ kind[r] \in {"chat", "stream"} =>
            interrupt_signal[r]

\* C12: when the dispatcher ends a request because of a disconnect or
\* because the streaming channel closes, the request's interrupt event is
\* set, the producer task created at line 174 for this request is cancelled
\* and the SSE send channel, if one was opened, is closed.
C12_CleanupOnOwnObjects ==
    handler = "closed" /\ (ended_by = "disconnect" \/ send_chan = "closed") =>
        /\ event_set
        /\ "producer" \in cancelled
        /\ send_chan # "open"

\* The chunk events sent so far, without the [DONE] event.
sent_chunks == SelectSeq(sent, is_dict)

\* C13: [DONE] is sent exactly when the publisher received the end-of-stream
\* sentinel, and then every chunk the job put was sent before it; a stream
\* ended by a disconnect, an error item or a timeout carries no [DONE]; and
\* [DONE] is the last event of its stream.
C13_DoneExactlyOnSentinel ==
    /\ (\E i \in DOMAIN sent : sent[i] = DoneEvent) <=> ended_by = "sentinel"
    /\ \A i \in DOMAIN sent : sent[i] = DoneEvent => i = Len(sent)
    /\ ended_by = "sentinel" =>
           /\ sent = Append(put_chunks, DoneEvent)
           /\ producer = "returned"
    /\ ended_by \in {"disconnect", "error", "timeout"} => sent = sent_chunks

\* C13 witness: a stream of several chunks ended by the sentinel, and so
\* with [DONE].
C13_Witness ==
    /\ ended_by = "sentinel"
    /\ Len(sent) >= 3
    /\ sent[Len(sent)] = DoneEvent

\* C14: the chunk events sent are the chunks the job put, in the order it
\* put them: what was sent, followed by the first response while it is not
\* yet sent, followed by the chunks still on the queue, is at every moment
\* of the streaming exactly what was put; the first item is sent first and
\* once; and a stream that ends with the sentinel has sent every chunk.
C14_SentIsWhatWasPut ==
    /\ Len(sent_chunks) <= Len(put_chunks)
    /\ sent_chunks = SubSeq(put_chunks, 1, Len(sent_chunks))
    /\ handler = "send_first" =>
           put_chunks = <<first_response>> \o SelectSeq(fifo, is_dict)
    /\ handler = "publishing" =>
           /\ put_chunks = sent_chunks \o SelectSeq(fifo, is_dict)
           /\ sent_chunks[1] = first_response
    /\ ended_by = "sentinel" => sent_chunks = put_chunks

\* C14 witness: two chunks were sent and a third one waits on the queue.
C14_Witness ==
    /\ handler = "publishing"
    /\ Len(sent_chunks) = 2
    /\ fifo # <<>> /\ is_dict(Head(fifo))

\* The concatenation of a sequence of texts.
RECURSIVE Flatten(_)
Flatten(texts) ==
    IF texts = <<>> THEN <<>> ELSE Head(texts) \o Flatten(Tail(texts))

\* C15: no yielded chunk contains a configured stop string, and no stop
\* string is formed across consecutive yielded chunks: the concatenation of
\* everything yielded contains none.
C15_NoStopStringYielded ==
    \A s \in stops :
        /\ \A i \in DOMAIN yielded : ~Contains(yielded[i], s)
        /\ ~Contains(Flatten(yielded), s)

\* C15 witness: text was yielded, then the beginning of a stop string was
\* withheld, and the token that completed the stop string ended the
\* generation.
C15_Witness ==
    /\ loop_end = "stop"
    /\ yielded # <<>>
    /\ text_buffer # <<>>
    /\ ~(\E s \in stops : Contains(text_buffer, s))

\* C16: at every point of a generation and at its end, the concatenation of
\* the chunks yielded so far is the generated_text of the completion status.
C16_YieldedIsGeneratedText == Flatten(yielded) = generated_text

\* C16 witness: a finished generation that yielded two chunks, one of them
\* with text withheld at an earlier step.
C16_Witness ==
    /\ loop = "returned"
    /\ Len(yielded) >= 2
    /\ \E i \in DOMAIN yielded : Len(yielded[i]) >= 3

\* The step of the loop taken now matches a stop string.
StopMatched ==
    LET bytes == byte_array \o detokenize(token_id') IN
    WellFormed(bytes) /\ stop_checker(text_buffer \o Decode(bytes)) = "True"

\* C17: the loop starts at most max_tokens iterations and every step it is
\* asked for is one more iteration; it is left in the very iteration in which the interrupt
\* flag is found set, the end-of-sequence token is produced or a stop string
\* is matched, and when the budget is used up; the end-of-sequence token and
\* the token of an interrupted iteration are not appended, nothing is
\* appended after the end, and generated_tokens counts the appended tokens
\* and never exceeds max_tokens.
C17_LoopTerminates ==
    /\ [](/\ steps <= max_tokens
          /\ generated_tokens <= max_tokens
          /\ generated_tokens = Len(generated_ids)
          /\ \A i \in DOMAIN generated_ids : generated_ids[i] # eos_token_id
          /\ loop = "loop" /\ consumer = "next"
                 => ENABLED (Exhausted \/ \E t \in TokenIds : Step(t))
          /\ loop = "loop" /\ steps = max_tokens => ~ENABLED (\E t \in TokenIds : Step(t)))
    /\ [][/\ loop = "loop" /\ loop' = "loop" /\ ~UNCHANGED generation_vars
               /\ signal_set' = signal_set /\ consumer = "next"
             => steps' = steps + 1
          /\ steps' # steps /\ (signal_set \/ token_id' = eos_token_id)
             => loop' = "returned" /\ generated_ids' = generated_ids
          /\ steps' # steps /\ ~signal_set /\ token_id' # eos_token_id /\ StopMatched
             => loop' = "returned"
          /\ loop \in {"returned", "raised"} => UNCHANGED generation_vars]_vars

\* C17 witness: a generation of several tokens that ended because the budget
\* was used up.
C17_Witness ==
    /\ loop_end = "max_tokens"
    /\ steps = max_tokens
    /\ generated_tokens >= 2

\* C18: with a cache attached, a generation that ended on the
\* end-of-sequence token, on a stop string or on the budget has written the
\* state under input_ids + generated_ids, and a generation that ended
\* because the interrupt flag was set has written nothing.
C18_CacheWrittenOnCleanEndOnly ==
    cache_attached /\ loop = "returned" =>
        /\ loop_end \in {"eos", "stop", "max_tokens"} =>
               cache_keys = {input_ids \o generated_ids}
        /\ loop_end = "interrupt" => cache_keys = {}

\* C19: no failure of the warm-up aborts the generation: whatever the cache
\* lookup does, the generator gets past the warm-up and no error leaves it.
C19_WarmupNeverAborts ==
    cache_attached => loop # "raised" /\ loop_end # "error"

\* The generators resident in the worker: the entries of both deques and
\* the generator being instantiated.
resident ==
    Len(completion_generators) + Len(embedding_generators)
        + (IF pool = "idle" THEN 0 ELSE 1)

\* C20: in every state of a worker, the states in the middle of a load
\* included, the two deques together hold at most one generator, and they
\* hold none while a new generator is being instantiated.
C20_AtMostOneResident ==
    /\ Len(completion_generators) + Len(embedding_generators) <= 1
    /\ resident <= 1

\* C20 witness: a completion generator is being instantiated after an
\* embedding generator was resident and a load had failed.
C20_Witness ==
    /\ pool = "completion"
    /\ \E i \in DOMAIN calls : calls[i].result = "failed"
    /\ \E i \in DOMAIN calls :
           calls[i].result = "loaded" /\ calls[i].model \in EmbeddingModels

\* C27: a worker's affinity key changes only in the step in which a request
\* that has acquired a permit of that worker, and still holds it, reserves
\* the worker, and it becomes that request's key; choosing a worker, waiting
\* for the permit, aborting on a disconnect, ending a request and every step
\* of a job on the worker leave all keys unchanged.
C27_KeyWrittenByPermitHolder ==
    [][/\ \A w \in Workers :
              processed_key'[w] # processed_key[w] =>
                  \E r \in PermitHolders(w) :
                      /\ pc[r] = "acquired" /\ pc'[r] = AwaitOf(kind[r])
                      /\ processed_key'[w] = request_key[r]
       /\ \A r \in Slots :
              (AbortStep(r) \/ ~HoldsPermit(r)) /\ ~SelectStep(r) /\ pc'[r] # pc[r]
                  => processed_key' = processed_key]_vars

\* C27 witness: a request for one model has reserved a worker, and a request
\* for another model holds a second permit of that worker without having
\* written the key.
C27_Witness ==
    \E r \in Slots, q \in Slots :
        /\ pc[r] = "first_wait" /\ pc[q] = "acquired"
        /\ wix_meta[q] = wix[r]
        /\ request_key[q] \in ModelNames \ {request_key[r]}
        /\ processed_key[wix[r]] = request_key[r]

\* C21: over any run of completion requests that all name the same model,
\* with no other request in between to evict it, the worker loads the model
\* at most once: once a request of the run was served, every later request
\* of the run reuses the resident generator.
C21_SameModelLoadedOnce ==
    \A i \in DOMAIN calls : \A j \in DOMAIN calls :
        (/\ i < j
         /\ calls[i].requested \in CompletionModels
         /\ \A k \in i..j : calls[k].requested = calls[i].requested
         /\ calls[i].result \in {"loaded", "reused"})
            => calls[j].result = "reused"

C21_Witness ==
    /\ Len(calls) = 3
    /\ calls[1].requested \in CompletionModels
    /\ calls[1].result = "loaded"
    /\ \A k \in 2..3 : /\ calls[k].requested = calls[1].requested
                        /\ calls[k].result = "reused"

\* C30: a request naming an OpenAI alias and a request naming the model the
\* alias stands for get the same generator inside a worker: served one after
\* the other, in either order, the second reuses the generator of the first,
\* with no eviction and no second load.
C30_AliasSharesGenerator ==
    \A i \in DOMAIN calls :
        (/\ i + 1 \in DOMAIN calls
         /\ \E a \in DOMAIN openai_replacement_models :
                {calls[i].requested, calls[i + 1].requested} =
                    {a, openai_replacement_models[a]}
         /\ calls[i].result \in {"loaded", "reused"})
            => /\ calls[i + 1].result = "reused"
               /\ calls[i + 1].model = calls[i].model

C30_Witness ==
    /\ Len(calls) = 3
    /\ calls[1].requested = "gpt-4"
    /\ calls[1].result = "loaded"
    /\ calls[2].requested = "orca_mini_7b"
    /\ calls[2].result = "reused"
    /\ calls[3].requested = "gpt-4"
    /\ calls[3].result = "reused"
    /\ Len(completion_generators) = 1
    /\ completion_generators[1].name = "orca_mini_7b"

\* A step of the loop that decoded text: the token was taken, the loop was
\* not left at lines 217-221 and the bytes kept plus the bytes of the token
\* decode.
DecodingStep ==
    /\ loop = "loop"
    /\ steps' = steps + 1
    /\ ~(check_interruption \/ token_id' = eos_token_id)
    /\ WellFormed(byte_array \o detokenize(token_id'))

\* The text the stop checker sees at a decoding step.
DecodedSoFar == text_buffer \o Decode(byte_array \o detokenize(token_id'))

\* C23: when the withheld text plus the new text ends with a proper prefix
\* of a stop string and contains no stop string, the step yields nothing and
\* keeps the text; when text is withheld and the next decoded text completes
\* a stop string, the loop ends at that step and yields nothing; when the next
\* text shows the withheld text is no part of a stop string, the withheld
\* text and the new text are yielded together as one chunk.
C23_WithheldThenStoppedOrYielded ==
    [][DecodingStep =>
          LET text == DecodedSoFar
              full == \E s \in stops : Contains(text, s)
              partial == \E s \in stops : EndsWithPrefixOf(text, s)
          IN
          /\ (~full /\ partial) =>
                 /\ yielded' = yielded
                 /\ text_buffer' = text
                 /\ loop' = "loop"
          /\ (text_buffer # <<>> /\ full) =>
                 /\ yielded' = yielded
                 /\ loop' = "returned"
                 /\ loop_end' = "stop"
          /\ (text_buffer # <<>> /\ ~full /\ ~partial) =>
                 /\ yielded' = Append(yielded, text)
                 /\ text_buffer' = <<>>]_vars

\* Tokens "##" then "#a" with the stop string "###": no text at all.
C23_Witness ==
    /\ stops = {<<"#", "#", "#">>}
    /\ generated_ids = <<"##", "#a">>
    /\ loop_end = "stop"
    /\ yielded = <<>>

\* A step of the loop that took the bytes of its token: the loop was not
\* left at lines 217-221.
TokenStep ==
    /\ loop = "loop"
    /\ steps' = steps + 1
    /\ ~(check_interruption \/ token_id' = eos_token_id)

\* The characters of a text are whole.
WholeCharacters(text) == \A k \in DOMAIN text : text[k] \notin {"E1", "E2"}

\* C24 as stated: a step whose bytes do not decode yields nothing and keeps
\* the bytes; the step at which the following token completes the character
\* yields one string containing the character and leaves the byte buffer
\* empty; no chunk holds a partial character.
C24_ContinuationYields ==
    [][TokenStep =>
          LET bytes == byte_array \o detokenize(token_id') IN
          /\ ~WellFormed(bytes) =>
                 yielded' = yielded /\ byte_array' = bytes
          /\ (byte_array # <<>> /\ WellFormed(bytes)) =>
                 /\ Len(yielded') = Len(yielded) + 1
                 /\ \E k \in DOMAIN yielded'[Len(yielded')] :
                        yielded'[Len(yielded')][k] = "E"
                 /\ byte_array' = <<>>
          /\ \A i \in DOMAIN yielded' : WholeCharacters(yielded'[i])]_vars

\* C24, amended: a step whose bytes do not decode yields nothing and keeps
\* the bytes, in their order, after the bytes already kept; the step at which
\* the following token completes the character decodes all of them into one
\* string containing the character and leaves the byte buffer empty, and
\* that string, after the text withheld, is yielded at that step unless the
\* stop checker withholds it or ends the loop; no chunk holds a partial
\* character.
C24_ContinuationDecoded ==
    [][TokenStep =>
          LET bytes == byte_array \o detokenize(token_id') IN
          /\ ~WellFormed(bytes) =>
                 /\ yielded' = yielded
                 /\ byte_array' = bytes
                 /\ text_buffer' = text_buffer
          /\ (byte_array # <<>> /\ WellFormed(bytes)) =>
                 LET text == text_buffer \o Decode(bytes)
                     full == \E s \in stops : Contains(text, s)
                     partial == \E s \in stops : EndsWithPrefixOf(text, s)
                 IN
                 /\ \E k \in DOMAIN Decode(bytes) : Decode(bytes)[k] = "E"
                 /\ byte_array' = <<>>
                 /\ IF full THEN /\ yielded' = yielded
                                 /\ loop_end' = "stop"
                    ELSE IF partial THEN /\ yielded' = yielded
                                         /\ text_buffer' = text
                    ELSE yielded' = Append(yielded, text)
          /\ \A i \in DOMAIN yielded' : WholeCharacters(yielded'[i])]_vars

\* The lead byte, then the continuation byte: one chunk with the character.
C24_Witness ==
    /\ generated_ids = <<"E1", "E2">>
    /\ yielded = << <<"E">> >>
    /\ byte_array = <<>>
    /\ loop = "loop"

\* C29: when the generation ends on the token budget or on the
\* end-of-sequence token, nothing is left unyielded: no text is withheld in
\* text_buffer and no bytes are kept in byte_array.
C29_NothingLeftAtEnd ==
    loop_end \in {"max_tokens", "eos"} =>
        text_buffer = <<>> /\ byte_array = <<>>

\* C25: once the interrupt flag is set, the worker side stops within one
\* token step: whatever the generation loop does next ends it with no text
\* yielded and no token appended, and whatever generate_completion_chunks
\* does next is to return with nothing put on the queue.
C25_StopsWithinOneStep ==
    [][signal_set =>
          /\ yielded' = yielded
          /\ generated_ids' = generated_ids
          /\ generated_tokens' = generated_tokens
          /\ queued' = queued
          /\ loop = "start" => loop' \in {"returned", "raised"}
          /\ (loop = "loop" /\ consumer = "next") => loop' = "returned"
          /\ consumer = "chunk" => consumer' = "left"]_vars

\* The flag was set after one chunk was put and with the second in hand; the
\* second was not put and the generator was not advanced again.
C25_Witness ==
    /\ signal_set
    /\ consumer = "left"
    /\ loop = "loop"
    /\ Len(yielded) = 2
    /\ Len(queued) = 1

\* C26: at the warm-up for the request tokens, the state found in the cache
\* is loaded into the backend if and only if its key shares a strictly
\* longer prefix with the request than the tokens the backend evaluated
\* last; with equal lengths or a longer backend prefix the state of the
\* backend is left as it is.
C26_LoadsOnlyLongerPrefix ==
    [][(loop = "start" /\ loop' # "start" /\ cache_item' # <<>>) =>
          LET cache_prefix_len == longest_token_prefix(cache_item', input_ids)
              eval_prefix_len == longest_token_prefix(client_input_ids, input_ids)
          IN
          IF cache_prefix_len > eval_prefix_len
          THEN state_loaded' /\ client_input_ids' = cache_item'
          ELSE ~state_loaded' /\ client_input_ids' = client_input_ids]_vars

\* The cache held the state of the whole prompt, the backend had evaluated
\* less of it: the state was loaded.
C26_Witness ==
    /\ state_loaded
    /\ cache_item = input_ids
    /\ client_input_ids = input_ids
    /\ loop = "loop"

\* C22: when a generation failed with an error on a resident generator, the
\* next request for the same model does not reuse that generator: it is
\* answered by a fresh load.
C22_FailedGeneratorEvicted ==
    \A i \in DOMAIN calls :
        (/\ i + 1 \in DOMAIN calls
         /\ calls[i].generation = "error"
         /\ calls[i + 1].model = calls[i].model)
            => calls[i + 1].result # "reused"

\* C28: whenever completion_generator_manager is not inside its block, no
\* resident generator has its lock held or an event attached: every exit
\* from the block, by completion, by the early return on interruption or by
\* an error, released the lock and reset interrupt_signal to None.
C28_GeneratorRestoredOnEveryExit ==
    manager = "none" =>
        \A i \in DOMAIN completion_generators :
            /\ ~completion_generators[i].locked
            /\ completion_generators[i].interrupt_signal = None

====
